---- MODULE Spec2Model ----
(***************************************************************************)
(* ftext: in-place reformatting of a text file through a resizable memory  *)
(* mapping (src/ftext.c).  The model follows main(): map_file, the         *)
(* normaliser, the optional change of line length, one alignment pass,     *)
(* unmap_file and exit.  Offsets are 0-based byte offsets from startp.     *)
(***************************************************************************)
EXTENDS Integers, Sequences, FiniteSets, TLC

\* ------------------------------------------------------------------ bytes
NUL == 0
TAB == 9
LF == 10
CR == 13
SP == 32
HY == 45
CH_A == 97
CH_B == 98
\* what a load outside the mapping gives when the address is not mapped
FAULT == -1

\* ----------------------------------------------------------------- bounds
MaxLen == 2
MaxWidth == 4
MaxWords == 4
MaxFaults == 1
MaxRuns == 2
\* bytes of the last page that lie past the end of the file
PageTail == 8

VARIABLES
  file,            \* static mapped_file_t file
  lo, hi,          \* what memory holds below startp and at/after the end of the mapping
  user_options,    \* flags after test_user_options()
  MAX_LENGTH,
  total_lines, done_lines,
  pc, status,
  p, endp, save_p, line_start, line_end, len, sp_ok,   \* locals of the running function
  quotient, remainder, left, right, switch,            \* locals of justify_text
  delta, holes,
  input,           \* the bytes of the file when it was mapped
  normal,          \* the bytes when __normalise_file returned
  output,          \* the bytes the mapping held when the process ended
  before,          \* the buffer, cursor and line read when the current line was begun
  faults,          \* system-call failures the environment may still inject
  failed,          \* an allocate, remap or truncate step has failed
  mut_after_fail,  \* the buffer was changed after such a failure
  oob,             \* some load or store fell outside the mapping
  lastcall,        \* the last primitive called and what it returned
  run,             \* how many times the program has been started on the file
  mon              \* the show_progress thread of the pass: what it was made for, what it read

vars == <<file, lo, hi, user_options, MAX_LENGTH, total_lines, done_lines, pc, status,
          p, endp, save_p, line_start, line_end, len, sp_ok,
          quotient, remainder, left, right, switch, delta, holes,
          input, normal, output, before, faults, failed, mut_after_fail, oob, lastcall, run,
          mon>>

\* ---------------------------------------------------------------- helpers
Min(a, b) == IF a < b THEN a ELSE b
Max(a, b) == IF a > b THEN a ELSE b

Zeros(n) == [i \in 1..n |-> NUL]
Fill(n, c) == [i \in 1..n |-> c]

\* bytes [from, to) of b
Slice(b, from, to) == SubSeq(b, from + 1, to)

\* the byte a load at offset i gives
Rd(b, i) ==
  IF i >= 0 /\ i < Len(b) THEN b[i + 1]
  ELSE IF i < 0 THEN lo
  ELSE IF i < Len(b) + PageTail THEN hi
  ELSE FAULT

\* a store at offset i (a store outside the mapping does not reach the file)
Wr(b, i, c) == IF i >= 0 /\ i < Len(b) THEN [b EXCEPT ![i + 1] = c] ELSE b

InMap(b, i) == i >= 0 /\ i < Len(b)

\* a load at offset i faults
Faults(b, i) == ~InMap(b, i) /\ Rd(b, i) = FAULT

\* memchr(s, c, n): the offset of the first c in [s, s+n), or -1 (NULL)
RECURSIVE memchr(_, _, _, _)
memchr(b, s, c, n) ==
  IF n <= 0 THEN -1
  ELSE IF Rd(b, s) = c THEN s
  ELSE memchr(b, s + 1, c, n - 1)

\* while (*q in set) ++q
RECURSIVE SkipFwd(_, _, _)
SkipFwd(b, q, set) == IF Rd(b, q) \in set THEN SkipFwd(b, q + 1, set) ELSE q

\* while (*q in set) --q
RECURSIVE SkipBack(_, _, _)
SkipBack(b, q, set) == IF Rd(b, q) \in set THEN SkipBack(b, q - 1, set) ELSE q

WS == {SP, TAB}

\* ------------------------------------------------------------- primitives
\* The environment's answer to one call: which system call of it fails.
Env == {"ok", "fallocate", "mmap", "ftruncate"}
ENOSPC == 28

Result(f, ret, segv, fail) == [f |-> f, ret |-> ret, segv |-> segv, fail |-> fail]

\* the result r of a primitive together with the call that gave it: the primitive, its
\* arguments and the file as the call found it
Did(op, f, offset, by, r) ==
  [f |-> r.f, ret |-> r.ret, segv |-> r.segv, fail |-> r.fail,
   op |-> op, offset |-> offset, by |-> by, old |-> f]

\* __collapse_file(f, offset, range)
collapse_file(f, offset, range, env) ==
  Did("collapse", f, offset, range,
  IF offset < 0 \/ offset >= f.map_size THEN Result(f, 0, FALSE, FALSE)
  ELSE IF ~f.ok \/ offset + range > f.endp
  THEN Result(f, -1, TRUE, FALSE)              \* memmove through a wild pointer or size
  ELSE
    LET moved == Slice(f.buf, 0, offset) \o Slice(f.buf, offset + range, f.endp)
                 \o Zeros(range) \o Slice(f.buf, f.endp, Len(f.buf))
        map_size == f.map_size - range
    IN  IF map_size = 0 \/ env = "mmap"        \* mmap of length 0 is EINVAL
        THEN Result([f EXCEPT !.buf = moved, !.map_size = map_size, !.ok = FALSE],
                    -1, FALSE, TRUE)
        ELSE LET g == [f EXCEPT !.buf = Slice(moved, 0, map_size), !.map_size = map_size,
                                !.endp = map_size,
                                !.current_file_size = f.current_file_size - range]
             IN  IF env = "ftruncate" THEN Result(g, -1, FALSE, TRUE)
                 ELSE Result(g, 0, FALSE, FALSE))

\* an __extend_file_and_map that does not record the new size of the mapping
extend_forgets_map_size(f, by, env) ==
  Did("extend", f, 0, by,
  IF by <= 0 THEN Result(f, 1, FALSE, FALSE)
  ELSE IF ~f.ok \/ env = "mmap"
  THEN Result([f EXCEPT !.current_file_size = f.current_file_size + by, !.ok = FALSE],
              0, FALSE, TRUE)
  ELSE Result([f EXCEPT !.current_file_size = f.current_file_size + by,
                        !.buf = f.buf \o Zeros(by),
                        !.endp = f.map_size + by],
              1, FALSE, env = "fallocate"))

\* __extend_file_and_map(f, by): ret 0 stands for NULL, 1 for f->startp
extend_file_and_map(f, by, env) ==
  Did("extend", f, 0, by,
  IF by <= 0 THEN Result(f, 1, FALSE, FALSE)
  ELSE
    LET fallocate == IF env = "fallocate" THEN ENOSPC ELSE 0
    IN  IF fallocate < 0 THEN Result(f, 0, FALSE, TRUE)
        ELSE
          LET g == [f EXCEPT !.current_file_size = f.current_file_size + by]
          IN  IF ~f.ok \/ env = "mmap"
              THEN Result([g EXCEPT !.ok = FALSE], 0, FALSE, TRUE)
              ELSE Result([g EXCEPT !.buf = f.buf \o Zeros(by),
                                    !.map_size = f.map_size + by,
                                    !.endp = f.map_size + by],
                          1, FALSE, env = "fallocate"))

\* __shift_file_data(f, offset, by).  A negative by is a huge size_t: the memmove
\* copies [offset, endp - by) down to offset + by, the memset then zeroes from offset
\* until it leaves the mapping and the process is killed.
shift_file_data(f, offset, by) ==
  Did("shift", f, offset, by,
  IF ~f.ok \/ offset < 0 \/ f.endp - by - offset < 0 \/ (by < 0 /\ offset + by < 0)
  THEN Result(f, 0, TRUE, FALSE)
  ELSE IF by < 0
  THEN Result([f EXCEPT !.buf = [i \in 1..Len(f.buf) |->
                                   IF i <= offset + by THEN f.buf[i]
                                   ELSE IF i <= offset THEN Rd(f.buf, i - 1 - by)
                                   ELSE NUL]],
              0, TRUE, FALSE)
  ELSE Result([f EXCEPT !.buf = Slice(f.buf, 0, offset) \o Zeros(by)
                                 \o Slice(f.buf, offset, f.endp - by)
                                 \o Slice(f.buf, f.endp, Len(f.buf))],
              0, FALSE, FALSE))

\* __do_line_count(f)
RECURSIVE CountLF(_)
CountLF(b) == IF b = <<>> THEN 0 ELSE (IF b[1] = LF THEN 1 ELSE 0) + CountLF(Tail(b))

do_line_count(f) == IF f.ok THEN CountLF(Slice(f.buf, 0, f.endp)) ELSE 0

\* ------------------------------------------------------------------ input
Strings(S, n) == UNION {[1..k -> S] : k \in 0..n}

\* a line of k words of w letters each, joined by single spaces
RECURSIVE WordLine(_, _)
WordLine(k, w) ==
  IF k = 0 THEN <<>>
  ELSE (IF k = 1 THEN <<>> ELSE WordLine(k - 1, w) \o <<SP>>)
       \o Fill(w, IF k % 2 = 1 THEN CH_A ELSE CH_B)

WordLines == {WordLine(k, 1) : k \in 1..MaxWords} \cup {WordLine(k, 2) : k \in 1..2}

\* lines of one word that is longer than some of the widths
Fills == {Fill(MaxWidth - 1, CH_A), Fill(MaxWidth + 1, CH_A)}

\* lines that end in a hyphenated word
Hyphenated == {<<CH_A, HY>>, <<CH_A, SP, HY, SP, CH_B, HY>>}

\* a line with a tab between its words
Tabbed == {<<CH_A, TAB, CH_B>>}

\* the longest lines
Long == {Fill(2 * MaxWords, CH_A), Fill(2 * MaxWords + 1, CH_A)}

Lines == WordLines \cup Fills \cup Hyphenated

\* LF-terminated texts of one or two lines, the two a line break or a blank line apart
Texts == {l \o <<LF>> : l \in Lines \cup Tabbed}
         \cup {l \o s \o m \o <<LF>> : l \in Lines, m \in {<<CH_A>>} \cup Long,
                                       s \in {<<LF>>, <<LF, LF>>}}

\* every short file over the bytes the passes tell apart
Short == Strings({CH_A, SP, LF, HY}, MaxLen) \cup Strings({CH_A, TAB, CR, LF}, MaxLen)

Inputs == Short \cup Texts

\* flags of user_options
LENGTH == "LENGTH"
UNJUSTIFY == "UNJUSTIFY"
JUSTIFY == "JUSTIFY"
LALIGN == "LALIGN"
RALIGN == "RALIGN"
CALIGN == "CALIGN"
Flags == {LENGTH, UNJUSTIFY, JUSTIFY, LALIGN, RALIGN, CALIGN}

\* test_user_options(): the flag sets main() goes on with
test_user_options(o) ==
  /\ ~(UNJUSTIFY \in o /\ JUSTIFY \in o)
  /\ ~(JUSTIFY \in o /\ (LALIGN \in o \/ RALIGN \in o \/ CALIGN \in o))
  /\ ~(RALIGN \in o /\ (CALIGN \in o \/ LALIGN \in o))
  /\ ~(CALIGN \in o /\ (RALIGN \in o \/ LALIGN \in o))

OptionSets ==
  {IF LENGTH \in o THEN o \ {UNJUSTIFY} ELSE o : o \in {x \in SUBSET Flags : test_user_options(x)}}

Widths == 1..MaxWidth

NoFile == [buf |-> <<>>, map_size |-> 0, current_file_size |-> 0, ok |-> FALSE, endp |-> 0]
NoCall == [op |-> "none", ret |-> 0, offset |-> 0, by |-> 0, old |-> NoFile, new |-> NoFile]
NoLine == [op |-> "none", buf |-> <<>>, start |-> 0, text |-> <<>>]
\* no show_progress thread: pass is the flag it was created for, lines the LF count of
\* the buffer at that time, entered whether the pass has been called since, seen what
\* its first read of the counters found in total_lines
NoMonitor == [pass |-> "none", lines |-> 0, entered |-> FALSE, seen |-> "nothing"]

\* the process as main() finds it once the options are read
Boot ==
  /\ file = NoFile
  /\ total_lines = 0 /\ done_lines = 0
  /\ pc = "map_file" /\ status = "running"
  /\ p = 0 /\ endp = 0 /\ save_p = 0 /\ line_start = 0 /\ line_end = 0 /\ len = 0
  /\ sp_ok = FALSE
  /\ quotient = 0 /\ remainder = 0 /\ left = 0 /\ right = 0 /\ switch = 0
  /\ delta = 0 /\ holes = 0
  /\ normal = <<>> /\ output = <<>>
  /\ before = NoLine
  /\ failed = FALSE /\ mut_after_fail = FALSE /\ oob = FALSE
  /\ lastcall = NoCall
  /\ mon = NoMonitor

\* Short files meet a system call that fails; the texts are formatted without one.
Init ==
  /\ \/ input \in Short /\ faults = MaxFaults
     \/ input \in Texts \ Short /\ faults = 0
  /\ lo \in {NUL, FAULT}
  /\ hi \in {NUL, FAULT}
  /\ user_options \in OptionSets
  /\ MAX_LENGTH \in (IF LENGTH \in user_options THEN Widths ELSE {0})
  /\ run = 1
  /\ Boot

\* ------------------------------------------------------- shared step parts
optVars == <<lo, hi, user_options>>
runVars == <<input, run>>
monVars == <<mon>>
histVars == <<normal, output, before>>
progVars == <<total_lines, done_lines>>
justVars == <<quotient, remainder, left, right, switch, delta, holes>>
scanVars == <<p, endp, save_p, line_start, line_end, len, sp_ok>>

\* the answers the environment may give to the next call
Answers == IF faults > 0 THEN Env ELSE {"ok"}

\* record a call of a primitive that returned r under answer env, then `wrote`
\* tells whether the caller stored into the buffer after the call
Called(op, r, env, buf2) ==
  /\ file' = [r.f EXCEPT !.buf = buf2]
  /\ failed' = (failed \/ r.fail)
  /\ mut_after_fail' = (mut_after_fail \/ (failed /\ buf2 # file.buf)
                                       \/ (r.fail /\ buf2 # r.f.buf))
  /\ faults' = IF r.fail /\ env # "ok" THEN faults - 1 ELSE faults
  /\ lastcall' = [op |-> op, ret |-> r.ret, offset |-> r.offset, by |-> r.by,
                  old |-> r.old, new |-> r.f]
  /\ UNCHANGED output

\* no primitive is called; the caller may store into the buffer
NoCallMade(buf2) ==
  /\ file' = [file EXCEPT !.buf = buf2]
  /\ mut_after_fail' = (mut_after_fail \/ (failed /\ buf2 # file.buf))
  /\ UNCHANGED <<failed, faults, lastcall, output>>

\* the process is killed by SIGSEGV; f is the file as the fault left it, call the last
\* primitive called
Killed(f, outside, call) ==
  /\ status' = "segv" /\ pc' = "halt"
  /\ file' = f
  /\ output' = f.buf
  /\ oob' = (oob \/ outside)
  /\ mut_after_fail' = (mut_after_fail \/ (failed /\ f.buf # file.buf))
  /\ lastcall' = call
  /\ UNCHANGED <<optVars, monVars, runVars, MAX_LENGTH, progVars, justVars, scanVars, normal,
                 before, faults, failed>>

\* the fault is in the caller
Segv(f, outside) == Killed(f, outside, lastcall)

\* the fault is in the memmove or memset of the primitive whose result is r
SegvIn(r, outside) ==
  Killed(r.f, outside, [op |-> r.op, ret |-> r.ret, offset |-> r.offset, by |-> r.by,
                        old |-> r.old, new |-> r.f])

\* map_file(): lstat, open, mmap of the whole file (a length of 0 is EINVAL)
MapFile ==
  /\ pc = "map_file"
  /\ IF Len(input) = 0
     THEN /\ pc' = "fail"
          /\ file' = [NoFile EXCEPT !.ok = FALSE]
     ELSE /\ pc' = "remove_cr"
          /\ file' = [buf |-> input, map_size |-> Len(input),
                      current_file_size |-> Len(input), ok |-> TRUE, endp |-> Len(input)]
  /\ p' = 0 /\ len' = Len(input) /\ sp_ok' = TRUE
  /\ UNCHANGED <<optVars, monVars, runVars, MAX_LENGTH, progVars, justVars, endp, save_p, line_start, line_end, status,
                 histVars, faults, failed, mut_after_fail, oob, lastcall>>

\* ------------------------------------------------------- __normalise_file
\* entry of __remove_extra_whitespace / __unjustify_text: p = startp = f->startp,
\* endp = f->endp; with startp == MAP_FAILED the loop test p < endp is false
EnterPass(next) ==
  /\ pc' = next
  /\ p' = 0 /\ endp' = file'.endp /\ sp_ok' = file'.ok

\* __remove_cr: one turn of its loop (the memchr, then the collapse of one byte)
RemoveCr ==
  /\ pc = "remove_cr"
  /\ LET q == memchr(file.buf, p, CR, len)
     IN  IF q = -1
         THEN /\ NoCallMade(file.buf)
              /\ EnterPass("ws_lead")
              /\ UNCHANGED <<len, save_p, status, oob>>
         ELSE \E env \in Answers :
                LET r == collapse_file(file, q, 1, env)
                IN  IF r.segv THEN SegvIn(r, FALSE)
                    ELSE /\ Called("collapse", r, env, r.f.buf)
                         /\ p' = q /\ len' = len - (q - p) - 1
                         /\ UNCHANGED <<pc, endp, sp_ok, save_p, status, oob>>
  /\ UNCHANGED <<optVars, monVars, runVars, MAX_LENGTH, progVars, justVars, line_start, line_end, normal, before>>

\* __remove_extra_whitespace, loop head to the memchr: the white space a line begins with
WsLead ==
  /\ pc = "ws_lead"
  /\ IF ~sp_ok \/ p >= endp
     THEN /\ NoCallMade(file.buf)
          /\ EnterPass("unjustify")
          /\ UNCHANGED <<save_p, status, oob>>
     ELSE IF Rd(file.buf, p) \in WS
     THEN LET q == SkipFwd(file.buf, p, WS)
          IN  IF Faults(file.buf, q) THEN Segv(file, TRUE)
              ELSE \E env \in Answers :
                     LET r == collapse_file(file, p, q - p, env)
                     IN  IF r.segv THEN SegvIn(r, ~InMap(file.buf, q))
                         ELSE /\ Called("collapse", r, env, r.f.buf)
                              /\ endp' = endp - (q - p)
                              /\ save_p' = p
                              /\ pc' = "ws_find"
                              /\ oob' = (oob \/ ~InMap(file.buf, q))
                              /\ UNCHANGED <<p, sp_ok, status>>
     ELSE /\ NoCallMade(file.buf)
          /\ save_p' = p
          /\ pc' = "ws_find"
          /\ oob' = (oob \/ ~InMap(file.buf, p))
          /\ UNCHANGED <<p, endp, sp_ok, status>>
  /\ UNCHANGED <<optVars, monVars, runVars, MAX_LENGTH, progVars, justVars, line_start, line_end, len, normal, before>>

\* __remove_extra_whitespace, from the memchr to the end of the loop body: the white
\* space the line ends with
WsFind ==
  /\ pc = "ws_find"
  /\ LET q == memchr(file.buf, save_p, LF, endp - save_p)
         e == IF q = -1 THEN endp ELSE q      \* the end the white space is cut back from
         b == SkipBack(file.buf, e - 1, WS)    \* the last byte that is no white space
         cut == Rd(file.buf, e - 1) \in WS
         out1 == ~InMap(file.buf, b)
     IN  IF Faults(file.buf, b) THEN Segv(file, TRUE)
         ELSE \E env \in Answers :
           LET r == IF cut THEN collapse_file(file, b + 1, e - (b + 1), env)
                    ELSE Result(file, 0, FALSE, FALSE)
               out2 == q # -1 /\ ~InMap(r.f.buf, q)
           IN  IF r.segv THEN SegvIn(r, out1)
               ELSE IF q # -1 /\ Faults(r.f.buf, q) THEN Segv(r.f, TRUE)
               ELSE /\ IF cut THEN Called("collapse", r, env, r.f.buf)
                              ELSE NoCallMade(file.buf)
                    /\ oob' = (oob \/ out1 \/ out2)
                    /\ UNCHANGED <<status, save_p>>
                    /\ IF q = -1
                       THEN EnterPass("unjustify")
                       ELSE /\ pc' = "ws_lead"
                            /\ endp' = IF cut THEN endp - (e - (b + 1)) ELSE endp
                            /\ p' = IF Rd(r.f.buf, q) = LF THEN q + 1
                                    ELSE IF cut THEN b + 2 ELSE q - 1
                            /\ UNCHANGED sp_ok
  /\ UNCHANGED <<optVars, monVars, runVars, MAX_LENGTH, progVars, justVars, line_start, line_end, len, normal, before>>

\* __unjustify_text: one turn of its loop
Unjustify ==
  /\ pc = "unjustify"
  /\ LET q == IF ~sp_ok \/ p >= endp THEN -1 ELSE memchr(file.buf, p, SP, endp - p)
         s == q + 1
         e == SkipFwd(file.buf, s, {SP})
     IN  IF q = -1
         THEN /\ NoCallMade(file.buf)
              /\ pc' = "hyphen"
              /\ p' = 0 /\ endp' = file.endp /\ sp_ok' = TRUE
              /\ UNCHANGED <<save_p, status, oob>>
         ELSE IF Faults(file.buf, e) THEN Segv(file, TRUE)
         ELSE \E env \in Answers :
                LET r == IF e > s THEN collapse_file(file, s, e - s, env)
                         ELSE Result(file, 0, FALSE, FALSE)
                IN  IF r.segv THEN SegvIn(r, ~InMap(file.buf, e))
                    ELSE /\ IF e > s THEN Called("collapse", r, env, r.f.buf)
                                     ELSE NoCallMade(file.buf)
                         /\ p' = s /\ save_p' = s
                         /\ endp' = endp - (e - s)
                         /\ oob' = (oob \/ ~InMap(file.buf, e))
                         /\ UNCHANGED <<pc, sp_ok, status>>
  /\ UNCHANGED <<optVars, monVars, runVars, MAX_LENGTH, progVars, justVars, line_start, line_end, len, normal, before>>

\* while (*q != 0x20 && q > startp) --q
RECURSIVE BackToSpace(_, _)
BackToSpace(b, q) == IF Rd(b, q) # SP /\ q > 0 THEN BackToSpace(b, q - 1) ELSE q

\* __normalise_file, the loop that removes "-\n": one turn
Hyphen ==
  /\ pc = "hyphen"
  /\ LET q == IF p >= endp THEN -1 ELSE memchr(file.buf, p, HY, endp - p)
     IN  IF q = -1
         THEN /\ NoCallMade(file.buf)
              /\ pc' = "main_length"
              /\ normal' = file.buf
              /\ UNCHANGED <<scanVars, status, oob>>
         ELSE IF Faults(file.buf, q + 1) THEN Segv(file, TRUE)
         ELSE IF Rd(file.buf, q + 1) # LF
         THEN /\ NoCallMade(file.buf)
              /\ p' = q + 1 /\ save_p' = p
              /\ oob' = (oob \/ ~InMap(file.buf, q + 1))
              /\ UNCHANGED <<pc, endp, sp_ok, line_start, line_end, len, status, normal>>
         ELSE \E env \in Answers :
                LET r == collapse_file(file, q, 2, env)
                    t == BackToSpace(r.f.buf, q)
                    isSp == Rd(r.f.buf, t) = SP
                IN  IF r.segv THEN SegvIn(r, FALSE)
                    ELSE IF Faults(r.f.buf, q) THEN Segv(r.f, TRUE)
                    ELSE /\ Called("collapse", r, env,
                                   IF isSp THEN Wr(r.f.buf, t, LF) ELSE r.f.buf)
                         /\ p' = IF isSp THEN t + 1 ELSE t
                         /\ save_p' = p
                         /\ endp' = endp - 2
                         /\ oob' = (oob \/ ~InMap(r.f.buf, q))
                         /\ UNCHANGED <<pc, sp_ok, line_start, line_end, len, status, normal>>
  /\ UNCHANGED <<optVars, monVars, runVars, MAX_LENGTH, progVars, justVars, before>>

\* ---------------------------------------------------- change_line_length
\* main(): if (test_flag(LENGTH)) change_line_length(&file), up to its loop
MainLength ==
  /\ pc = "main_length"
  /\ LENGTH \in user_options => mon.pass = LENGTH
  /\ mon' = IF LENGTH \in user_options THEN [mon EXCEPT !.entered = TRUE] ELSE mon
  /\ IF LENGTH \in user_options
     THEN /\ total_lines' = do_line_count(file)
          /\ done_lines' = 0
          /\ p' = 0 /\ line_start' = 0 /\ endp' = file.endp /\ sp_ok' = file.ok
          /\ pc' = IF file.ok /\ 0 < file.endp THEN "reflow" ELSE "main_align"
          /\ UNCHANGED <<save_p, line_end, len>>
     ELSE /\ pc' = "main_align"
          /\ UNCHANGED <<progVars, scanVars>>
  /\ UNCHANGED <<file, optVars, runVars, MAX_LENGTH, justVars, histVars, status, faults, failed,
                 mut_after_fail, oob, lastcall>>

\* while (*le != 0x20 && *le != 0x0a && le > ls + 1) --le
RECURSIVE BackToBreak(_, _, _)
BackToBreak(b, le, ls) ==
  IF Rd(b, le) # SP /\ Rd(b, le) # LF /\ le > ls + 1 THEN BackToBreak(b, le - 1, ls) ELSE le

\* a cut that is looked for one byte too far
LineEndLate(b, ls, e) ==
  LET le0 == Min(ls + MAX_LENGTH + 1, e)
  IN  IF Rd(b, le0) # LF /\ Rd(b, le0) # SP
      THEN LET le1 == BackToBreak(b, le0, ls)
           IN  IF le1 = ls THEN Min(ls + MAX_LENGTH, e) ELSE le1
      ELSE le0

\* where the line that starts at ls is cut (lines 831-850)
LineEnd(b, ls, e) ==
  LET le0 == Min(ls + MAX_LENGTH, e)
  IN  IF Rd(b, le0) # LF /\ Rd(b, le0) # SP
      THEN LET le1 == BackToBreak(b, le0, ls)
           IN  IF le1 = ls THEN Min(ls + MAX_LENGTH, e) ELSE le1
      ELSE le0

\* the loop of lines 858-887 from q: the buffer, the cursor, the lines counted and
\* whether it left by the goto
RECURSIVE JoinLines(_, _, _, _, _)
JoinLines(b, q, le, e, done) ==
  IF q >= le THEN [buf |-> b, p |-> q, done |-> done, restart |-> FALSE]
  ELSE IF Rd(b, q) = LF /\ q + 1 = e
  THEN [buf |-> b, p |-> q, done |-> done + 1, restart |-> FALSE]
  ELSE IF Rd(b, q) = LF /\ Rd(b, q + 1) # LF
  THEN JoinLines(Wr(b, q, SP), q + 1, le, e, done + 1)
  ELSE IF Rd(b, q) = LF
  THEN LET n == SkipFwd(b, q, {LF})
       IN  [buf |-> b, p |-> n, done |-> done + (n - q), restart |-> TRUE]
  ELSE JoinLines(b, q + 1, le, e, done)

\* the line about to be rewritten, for the properties of one line
TextAt(b, ls) ==
  LET n == memchr(b, ls, LF, Len(b) - ls)
  IN  Slice(b, ls, IF n = -1 THEN Len(b) ELSE n)

LineAt(op, b, ls) == [op |-> op, buf |-> b, start |-> ls, text |-> TextAt(b, ls)]

\* the longest the mapping may grow in the model
MaxBuf == 24

\* forced hyphenation: how many bytes are added at hp0 = line_start + MAX_LENGTH - 1
\* and where they go (one byte, an LF, next to a hyphen that is already there)
HyphenShift(b, hp0) == IF Rd(b, hp0) = HY \/ Rd(b, hp0 - 1) = HY THEN 1 ELSE 2

\* a hyphenation that always steps over the byte at hp0
HyphenPlaceLate(b, hp0) == hp0 + 1

HyphenPlace(b, hp0) == IF Rd(b, hp0) = HY THEN hp0 + 1 ELSE hp0

\* change_line_length: one turn of its loop, from __begin_next_line
ReflowLine ==
  /\ pc = "reflow"
  /\ LET b == file.buf
         le0 == Min(p + MAX_LENGTH, endp)
         le == LineEnd(b, p, endp)
         j == JoinLines(b, p, le, endp, done_lines)
         out1 == ~InMap(b, le0) \/ (j.restart /\ ~InMap(b, j.p))
         hp0 == p + MAX_LENGTH - 1
         hyph == ~j.restart /\ j.p < endp /\ Rd(j.buf, j.p) # SP /\ Rd(j.buf, j.p) # LF
         shift == HyphenShift(j.buf, hp0)
         hp == HyphenPlace(j.buf, hp0)
         out2 == hyph /\ (~InMap(j.buf, hp0)
                          \/ (Rd(j.buf, hp0) # HY /\ ~InMap(j.buf, hp0 - 1)))
     IN  IF Faults(b, le0) THEN Segv(file, TRUE)
         ELSE IF j.restart
         THEN IF Faults(b, j.p) THEN Segv(file, TRUE)
              ELSE /\ NoCallMade(j.buf)
                   /\ p' = j.p /\ line_start' = j.p /\ line_end' = j.p
                   /\ done_lines' = j.done
                   /\ before' = LineAt("reflow", b, p)
                   /\ oob' = (oob \/ out1)
                   /\ UNCHANGED <<pc, endp, status>>
         ELSE IF ~hyph
         THEN LET b2 == IF j.p < endp /\ Rd(j.buf, j.p) = SP THEN Wr(j.buf, j.p, LF)
                        ELSE j.buf
                  p2 == IF j.p < endp THEN j.p + 1 ELSE j.p
              IN  /\ NoCallMade(b2)
                  /\ p' = p2 /\ line_start' = p2 /\ line_end' = p2
                  /\ done_lines' = IF j.p < endp /\ Rd(j.buf, j.p) = LF THEN j.done + 1
                                   ELSE j.done
                  /\ before' = LineAt("reflow", b, p)
                  /\ oob' = (oob \/ out1)
                  /\ pc' = IF p2 < endp THEN "reflow" ELSE "main_align"
                  /\ UNCHANGED <<endp, status>>
         ELSE IF Faults(j.buf, hp0) \/ (Rd(j.buf, hp0) # HY /\ Faults(j.buf, hp0 - 1))
         THEN Segv([file EXCEPT !.buf = j.buf], TRUE)
         ELSE /\ Len(b) + shift <= MaxBuf
              /\ \E env \in Answers :
                   LET x == extend_file_and_map([file EXCEPT !.buf = j.buf], shift, env)
                       m == shift_file_data(x.f, hp, shift)
                       b3 == IF shift = 2 THEN Wr(Wr(m.f.buf, hp, HY), hp + 1, LF)
                             ELSE Wr(m.f.buf, hp, LF)
                   IN  IF x.ret = 0
                       THEN /\ Called("extend", x, env, x.f.buf)
                            /\ pc' = "fail"
                            /\ done_lines' = j.done
                            /\ before' = LineAt("hyphenate", b, p)
                            /\ oob' = (oob \/ out1 \/ out2)
                            /\ UNCHANGED <<p, endp, line_start, line_end, status>>
                       ELSE IF m.segv THEN SegvIn(m, out1 \/ out2)
                       ELSE /\ Called("shift", [m EXCEPT !.fail = x.fail], env, b3)
                            /\ p' = hp + shift /\ line_start' = hp + shift
                            /\ line_end' = hp + shift
                            /\ endp' = endp + shift
                            /\ done_lines' = j.done
                            /\ before' = LineAt("hyphenate", b, p)
                            /\ oob' = (oob \/ out1 \/ out2)
                            /\ pc' = IF hp + shift < endp + shift THEN "reflow"
                                     ELSE "main_align"
                            /\ UNCHANGED status
  /\ UNCHANGED <<optVars, monVars, runVars, MAX_LENGTH, justVars, total_lines, save_p, len, sp_ok, normal>>

\* ------------------------------------------------------ alignment passes
\* a division that rounds up, and a remainder that is lost
CDivRoundUp(a, b) == (a + b - 1) \div b

CModLost(a, b) == 0

\* C's / and % (truncation toward zero)
CDiv(a, b) == IF a >= 0 THEN a \div b ELSE -((-a) \div b)
CMod(a, b) == a - b * CDiv(a, b)

\* the characters of [q, le) counted by __get_length_longest_line (lines 244-264)
RECURSIVE CharCnt(_, _, _)
CharCnt(b, q, le) ==
  IF q >= le THEN 0
  ELSE IF Rd(b, q) = SP THEN 1 + CharCnt(b, SkipFwd(b, q + 1, {SP}), le)
  ELSE 1 + CharCnt(b, q + 1, le)

\* while (*q == 0x0a && q < e) ++q
RECURSIVE SkipLF(_, _, _)
SkipLF(b, q, e) == IF Rd(b, q) = LF /\ q < e THEN SkipLF(b, q + 1, e) ELSE q

\* __get_length_longest_line(f) from cursor q with n bytes left: the length, and
\* whether a load fell outside the mapping or faulted
RECURSIVE LongestLine(_, _, _, _, _)
LongestLine(b, e, q, n, r) ==
  IF q >= e THEN r
  ELSE
    LET s == SkipFwd(b, q, WS)
        n1 == n - (s - q)
        le == memchr(b, s, LF, n1)
        c == CharCnt(b, s, le)
        nx == SkipLF(b, le, e)
        r1 == [r EXCEPT !.out = r.out \/ ~InMap(b, s), !.fault = r.fault \/ Faults(b, s)]
    IN  IF le = -1 \/ r1.fault THEN r1
        ELSE LongestLine(b, e, nx, n1 - (nx - s),
                         [max |-> Max(r.max, c), out |-> r1.out \/ ~InMap(b, nx),
                          fault |-> Faults(b, nx)])

get_length_longest_line(f) ==
  IF f.ok THEN LongestLine(f.buf, f.endp, 0, f.map_size, [max |-> 0, out |-> FALSE, fault |-> FALSE])
  ELSE [max |-> 0, out |-> FALSE, fault |-> FALSE]

\* the alignment main() switches on
Alignment == user_options \ {LENGTH}

\* the values of alignment that main() has a case for
Switched == {{JUSTIFY}, {UNJUSTIFY}, {LALIGN}, {RALIGN}, {CALIGN}}

\* a show_progress thread just created for a pass
Created(pass) ==
  [pass |-> pass, lines |-> do_line_count(file), entered |-> FALSE, seen |-> "nothing"]

\* main(): pthread_create(&TID_SP, NULL, show_progress, ...) ahead of a pass
StartProgress ==
  /\ status = "running"
  /\ \/ /\ pc = "main_length" /\ LENGTH \in user_options /\ mon.pass # LENGTH
        /\ mon' = Created(LENGTH)
     \/ /\ pc = "main_align" /\ Alignment \in Switched /\ mon.pass \notin Alignment
        /\ mon' = Created(CHOOSE a \in Alignment : TRUE)
  /\ UNCHANGED <<file, optVars, runVars, MAX_LENGTH, progVars, justVars, scanVars, histVars,
                 pc, status, faults, failed, mut_after_fail, oob, lastcall>>

\* show_progress: the first time it reads global_data.done_lines and
\* global_data.total_lines (line 1527); its later reads change nothing that is kept
ShowProgress ==
  /\ status = "running"
  /\ mon.pass # "none" /\ mon.seen = "nothing"
  /\ mon' = [mon EXCEPT !.seen = IF total_lines = mon.lines THEN "total" ELSE "stale"]
  /\ UNCHANGED <<file, optVars, runVars, MAX_LENGTH, progVars, justVars, scanVars, histVars,
                 pc, status, faults, failed, mut_after_fail, oob, lastcall>>

\* main(): switch (alignment), and the called function up to its loop
MainAlign ==
  /\ pc = "main_align"
  /\ Alignment \in Switched => mon.pass \in Alignment
  /\ IF Alignment \in {{JUSTIFY}, {RALIGN}, {CALIGN}}
     THEN LET g == get_length_longest_line(file)
              measured == LENGTH \notin user_options
          IN  IF measured /\ g.fault THEN Segv(file, TRUE)
              ELSE /\ total_lines' = do_line_count(file)
                   /\ mon' = [mon EXCEPT !.entered = TRUE]
                   /\ done_lines' = 0
                   /\ MAX_LENGTH' = IF measured THEN g.max ELSE MAX_LENGTH
                   /\ p' = 0 /\ endp' = file.endp /\ sp_ok' = file.ok
                   /\ oob' = (oob \/ (measured /\ g.out))
                   /\ pc' = IF ~(file.ok /\ 0 < file.endp)
                            THEN (IF Alignment = {JUSTIFY} THEN "justify_ret" ELSE "main_exit")
                            ELSE IF Alignment = {JUSTIFY} THEN "justify"
                            ELSE IF Alignment = {RALIGN} THEN "right" ELSE "centre"
                   /\ UNCHANGED <<file, status, save_p, line_start, line_end, len, output,
                                  mut_after_fail>>
     ELSE IF Alignment \in {{UNJUSTIFY}, {LALIGN}}
     THEN /\ total_lines' = 0
          /\ done_lines' = do_line_count(file)
          /\ mon' = [mon EXCEPT !.entered = TRUE]
          /\ pc' = "main_exit"
          /\ UNCHANGED <<file, MAX_LENGTH, scanVars, status, oob, output, mut_after_fail>>
     ELSE /\ pc' = "main_exit"
          /\ UNCHANGED <<file, MAX_LENGTH, progVars, scanVars, status, oob, output,
                         mut_after_fail, mon>>
  /\ UNCHANGED <<optVars, runVars, justVars, normal, before, faults, failed, lastcall>>

\* the number of 0x20 in [q, le)
RECURSIVE Holes(_, _, _)
Holes(b, q, le) ==
  IF q >= le THEN 0 ELSE (IF Rd(b, q) = SP THEN 1 ELSE 0) + Holes(b, q + 1, le)


\* a justify_text without its remainder loop
AfterQuotientDone(rem) == "justify_eol"

\* where justify_text goes on once the quotient loop is over (lines 1118-1188)
AfterQuotient(rem) == IF rem > 0 THEN "justify_rem" ELSE "justify_eol"

\* justify_text: a line is measured (lines 1003-1080)
JustifyLine ==
  /\ pc = "justify"
  /\ LET b == file.buf
         n == memchr(b, p, LF, endp - p)
         le0 == IF n = -1 THEN endp ELSE n
         char_cnt == le0 - p
         le == SkipFwd(b, le0, {LF})
         h == Holes(b, p, le)
         d == MAX_LENGTH - char_cnt
         threshold == CDiv(MAX_LENGTH, 2)
     IN  IF Faults(b, le) THEN Segv(file, TRUE)
         ELSE IF MAX_LENGTH = char_cnt \/ char_cnt <= threshold \/ h = 0
         THEN /\ NoCallMade(b)
              /\ p' = le /\ line_start' = le /\ line_end' = le
              /\ pc' = IF h = 0 /\ ~(MAX_LENGTH = char_cnt \/ char_cnt <= threshold)
                       THEN "justify"
                       ELSE IF le < endp THEN "justify" ELSE "justify_ret"
              /\ UNCHANGED <<endp, justVars>>
              /\ before' = LineAt("skip", b, p)
              /\ done_lines' = done_lines + (le - le0)
              /\ oob' = (oob \/ ~InMap(b, le))
              /\ UNCHANGED status
         ELSE /\ Len(b) + d <= MaxBuf
              /\ \E env \in Answers :
                   LET x == extend_file_and_map(file, d, env)
                   IN  /\ Called("extend", x, env, x.f.buf)
                       /\ done_lines' = done_lines + (le - le0)
                       /\ oob' = (oob \/ ~InMap(b, le))
                       /\ before' = LineAt("justify", b, p)
                       /\ line_start' = p /\ line_end' = le
                       /\ delta' = d /\ holes' = h
                       /\ quotient' = CDiv(d, h) /\ remainder' = CMod(d, h)
                       /\ switch' = 0
                       /\ left' = IF CDiv(d, h) = 0 /\ CMod(d, h) # 0 THEN p ELSE left
                       /\ right' = IF CDiv(d, h) = 0 /\ CMod(d, h) # 0 THEN le - 1 ELSE right
                       /\ UNCHANGED <<p, status>>
                       /\ IF x.ret = 0
                          THEN pc' = "kill" /\ UNCHANGED endp
                          ELSE /\ endp' = endp + d
                               /\ pc' = IF CDiv(d, h) # 0 THEN "justify_quot"
                                        ELSE AfterQuotient(CMod(d, h))
  /\ UNCHANGED <<optVars, monVars, runVars, MAX_LENGTH, total_lines, save_p, len, sp_ok, normal>>

\* memchr(s, c, n) where the range may leave the mapping: n is a size_t, so a negative
\* n never runs out; -2 stands for a load that faults
RECURSIVE memchr_size_t(_, _, _, _)
memchr_size_t(b, s, c, n) ==
  IF n = 0 THEN -1
  ELSE IF Rd(b, s) = FAULT THEN -2
  ELSE IF Rd(b, s) = c THEN s
  ELSE memchr_size_t(b, s + 1, c, n - 1)

\* justify_text: one turn of the quotient loop (lines 1086-1111)
JustifyQuotient ==
  /\ pc = "justify_quot"
  /\ LET b == file.buf
         q == memchr_size_t(b, p, SP, line_end - p)
         m == shift_file_data(file, q, 1)
         b2 == Wr(m.f.buf, q, SP)
         nx == SkipFwd(b2, q + 1, {SP})
     IN  IF p = line_end
         THEN /\ NoCallMade(b)
              /\ p' = line_start
              /\ quotient' = quotient - 1
              /\ pc' = IF quotient - 1 # 0 THEN "justify_quot" ELSE AfterQuotient(remainder)
              /\ left' = IF quotient - 1 = 0 /\ remainder # 0 THEN line_start ELSE left
              /\ right' = IF quotient - 1 = 0 /\ remainder # 0 THEN line_end - 1 ELSE right
              /\ UNCHANGED <<save_p, line_end, status, oob>>
         ELSE IF q = -2 THEN Segv(file, TRUE)
         ELSE IF q = -1
         THEN /\ NoCallMade(b)
              /\ p' = line_end /\ save_p' = p
              /\ UNCHANGED <<pc, quotient, left, right, line_end, status, oob>>
         ELSE IF m.segv THEN SegvIn(m, FALSE)
         ELSE IF Faults(b2, nx) THEN Segv([file EXCEPT !.buf = b2], TRUE)
         ELSE /\ Called("shift", m, "ok", b2)
              /\ p' = nx /\ save_p' = p
              /\ line_end' = line_end + 1
              /\ oob' = (oob \/ ~InMap(b2, nx))
              /\ UNCHANGED <<pc, quotient, left, right, status>>
  /\ UNCHANGED <<optVars, monVars, runVars, MAX_LENGTH, progVars, endp, line_start, len, sp_ok, remainder,
                 switch, delta, holes, normal, before>>

\* while (*q != 0x20 && q > l) --q
RECURSIVE BackToHole(_, _, _)
BackToHole(b, q, l) == IF Rd(b, q) # SP /\ q > l THEN BackToHole(b, q - 1, l) ELSE q

\* justify_text: one turn of the remainder loop (lines 1124-1185)
JustifyRemainder ==
  /\ pc = "justify_rem"
  /\ LET b == file.buf
         fw == memchr_size_t(b, left, SP, right - left)
         bw == BackToHole(b, right, left)
         q == IF switch = 0 THEN fw ELSE bw
         m == shift_file_data(file, q, 1)
         b2 == Wr(m.f.buf, q, SP)
         l2 == SkipFwd(b2, q + 1, {SP})
         r2 == SkipBack(b2, q - 1, {SP})
         stop == IF switch = 0 THEN l2 ELSE r2
     IN  IF switch = 0 /\ fw = -2 THEN Segv(file, TRUE)
         ELSE IF switch # 0 /\ Faults(b, right) THEN Segv(file, TRUE)
         ELSE IF (switch = 0 /\ fw = -1) \/ (switch # 0 /\ bw = left)
         THEN /\ NoCallMade(b)
              /\ left' = line_start /\ right' = line_end - 1
              /\ switch' = IF switch = 0 THEN 1 ELSE 0
              /\ p' = IF switch = 0 THEN p ELSE bw
              /\ oob' = (oob \/ (switch # 0 /\ ~InMap(b, right)))
              /\ UNCHANGED <<pc, remainder, line_end, status>>
         ELSE IF m.segv THEN SegvIn(m, FALSE)
         ELSE IF Faults(b2, stop) THEN Segv([file EXCEPT !.buf = b2], TRUE)
         ELSE /\ Called("shift", m, "ok", b2)
              /\ line_end' = line_end + 1
              /\ remainder' = remainder - 1
              /\ switch' = IF switch = 0 THEN 1 ELSE 0
              /\ left' = IF switch = 0 THEN l2 ELSE left
              /\ right' = IF switch = 0 THEN right + 1 ELSE r2
              /\ p' = IF switch = 0 THEN q + 1 ELSE q - 1
              /\ oob' = (oob \/ ~InMap(b2, stop) \/ (switch # 0 /\ ~InMap(b, right)))
              /\ pc' = AfterQuotient(remainder - 1)
              /\ UNCHANGED status
  /\ UNCHANGED <<optVars, monVars, runVars, MAX_LENGTH, progVars, endp, save_p, line_start, len, sp_ok,
                 quotient, delta, holes, normal, before>>

\* justify_text: p = line_start = line_end and the test of the loop (lines 1188-1191)
JustifyEndOfLine ==
  /\ pc = "justify_eol"
  /\ p' = line_end /\ line_start' = line_end
  /\ pc' = IF line_end < endp THEN "justify" ELSE "justify_ret"
  /\ UNCHANGED <<file, optVars, monVars, runVars, MAX_LENGTH, progVars, justVars, endp, save_p, line_end, len,
                 sp_ok, histVars, status, faults, failed, mut_after_fail, oob, lastcall>>

\* justify_text: ++global_data.done_lines; return 0 (lines 1194-1195)
JustifyReturn ==
  /\ pc = "justify_ret"
  /\ done_lines' = done_lines + 1
  /\ pc' = "main_exit"
  /\ UNCHANGED <<file, optVars, monVars, runVars, MAX_LENGTH, total_lines, justVars, scanVars, histVars,
                 status, faults, failed, mut_after_fail, oob, lastcall>>

\* right_align_text: one turn of its loop (lines 1246-1281)
RightLine ==
  /\ pc = "right"
  /\ LET b == file.buf
         n == memchr(b, p, LF, endp - p)
         le0 == IF n = -1 THEN endp ELSE n
         d == MAX_LENGTH - (le0 - p)
     IN  /\ Len(b) + d <= MaxBuf
         /\ \E env \in Answers :
              LET x == extend_file_and_map(file, d, env)
                  m == shift_file_data(x.f, p, d)
                  b2 == Slice(m.f.buf, 0, p) \o Fill(d, SP) \o Slice(m.f.buf, p + d, Len(m.f.buf))
                  le == SkipFwd(b2, le0 + d, {LF})
              IN  IF x.ret = 0
                  THEN /\ Called("extend", x, env, x.f.buf)
                       /\ pc' = "kill"
                       /\ before' = LineAt("right", b, p)
                       /\ line_start' = p
                       /\ UNCHANGED <<p, endp, line_end, done_lines, status, oob>>
                  ELSE IF m.segv THEN SegvIn(m, FALSE)
                  ELSE IF Faults(b2, le) THEN Segv([m.f EXCEPT !.buf = b2], TRUE)
                  ELSE /\ Called("shift", [m EXCEPT !.fail = x.fail], env, b2)
                       /\ endp' = endp + d
                       /\ p' = le /\ line_start' = le /\ line_end' = le
                       /\ done_lines' = done_lines + (le - (le0 + d))
                       /\ before' = LineAt("right", b, p)
                       /\ oob' = (oob \/ ~InMap(b2, le))
                       /\ pc' = IF le < endp + d THEN "right" ELSE "main_exit"
                       /\ UNCHANGED status
  /\ UNCHANGED <<optVars, monVars, runVars, MAX_LENGTH, total_lines, justVars, save_p, len, sp_ok, normal>>

\* centre_align_text: one turn of its loop (lines 1310-1358)
CentreLine ==
  /\ pc = "centre"
  /\ LET b == file.buf
         n == memchr(b, p, LF, endp - p)
         le0 == IF n = -1 THEN endp ELSE n
         d == MAX_LENGTH - (le0 - p)
         half1 == CDiv(d, 2) + CMod(d, 2)
         half2 == d - half1
         le1 == le0 + half1
     IN  /\ Len(b) + d <= MaxBuf
         /\ \E env \in Answers :
              LET x == extend_file_and_map(file, d, env)
                  m1 == shift_file_data(x.f, p, half1)
                  b1 == Slice(m1.f.buf, 0, p) \o Fill(half1, SP)
                        \o Slice(m1.f.buf, p + half1, Len(m1.f.buf))
                  m2 == shift_file_data([m1.f EXCEPT !.buf = b1], le1, half2)
                  b2 == Slice(m2.f.buf, 0, le1) \o Fill(half2, SP)
                        \o Slice(m2.f.buf, le1 + half2, Len(m2.f.buf))
                  le == SkipLF(b2, le1 + half2, endp + d)
              IN  IF x.ret = 0
                  THEN /\ Called("extend", x, env, x.f.buf)
                       /\ pc' = "kill"
                       /\ before' = LineAt("centre", b, p)
                       /\ line_start' = p
                       /\ UNCHANGED <<p, endp, line_end, done_lines, status, oob>>
                  ELSE IF m1.segv THEN SegvIn(m1, FALSE)
                  ELSE IF m2.segv THEN SegvIn(m2, FALSE)
                  ELSE IF Faults(b2, le) THEN Segv([m2.f EXCEPT !.buf = b2], TRUE)
                  ELSE /\ Called("shift", [m2 EXCEPT !.fail = x.fail], env, b2)
                       /\ endp' = endp + d
                       /\ p' = le /\ line_start' = le /\ line_end' = le
                       /\ done_lines' = done_lines + (le - (le1 + half2))
                       /\ before' = LineAt("centre", b, p)
                       /\ oob' = (oob \/ ~InMap(b2, le))
                       /\ pc' = IF le < endp + d THEN "centre" ELSE "main_exit"
                       /\ UNCHANGED status
  /\ UNCHANGED <<optVars, monVars, runVars, MAX_LENGTH, total_lines, justVars, save_p, len, sp_ok, normal>>

\* the label fail of an alignment pass: pthread_kill(TID_SP, SIGINT), which ends the
\* process unless the progress thread is already gone, then return -1
Interrupted ==
  /\ pc = "kill"
  /\ status' = "sigint" /\ pc' = "halt"
  /\ output' = file.buf
  /\ UNCHANGED <<file, optVars, monVars, runVars, MAX_LENGTH, progVars, justVars, scanVars, normal, before,
                 faults, failed, mut_after_fail, oob, lastcall>>

ReturnFailure ==
  /\ pc = "kill"
  /\ pc' = "fail"
  /\ UNCHANGED <<file, optVars, monVars, runVars, MAX_LENGTH, progVars, justVars, scanVars, histVars, status,
                 faults, failed, mut_after_fail, oob, lastcall>>

\* exit(EXIT_SUCCESS) / the label fail: unmap_file, then exit
Exit ==
  /\ pc \in {"main_exit", "fail"}
  /\ status' = IF pc = "fail" THEN "exit1" ELSE "exit0"
  /\ pc' = "halt"
  /\ file' = NoFile
  /\ output' = file.buf
  /\ UNCHANGED <<optVars, monVars, runVars, MAX_LENGTH, progVars, justVars, scanVars, normal, before, faults, failed,
                 mut_after_fail, oob, lastcall>>

\* The program is started again, with the same options, on the file an earlier run
\* left.  Followed up are the runs that only normalise, ended well and stayed inside
\* the mapping.
RunAgain ==
  /\ pc = "halt" /\ status = "exit0"
  /\ run < MaxRuns
  /\ user_options \subseteq {UNJUSTIFY, LALIGN}
  /\ ~failed /\ ~oob
  /\ input' = output
  /\ run' = run + 1
  /\ file' = NoFile
  /\ total_lines' = 0 /\ done_lines' = 0
  /\ pc' = "map_file" /\ status' = "running"
  /\ p' = 0 /\ endp' = 0 /\ save_p' = 0 /\ line_start' = 0 /\ line_end' = 0 /\ len' = 0
  /\ sp_ok' = FALSE
  /\ normal' = <<>> /\ output' = <<>>
  /\ before' = NoLine
  /\ lastcall' = NoCall
  /\ mon' = NoMonitor
  /\ UNCHANGED <<optVars, MAX_LENGTH, justVars, faults, failed, mut_after_fail, oob>>

Next ==
  \/ MapFile \/ RemoveCr \/ WsLead \/ WsFind \/ Unjustify \/ Hyphen
  \/ MainLength \/ ReflowLine \/ StartProgress \/ MainAlign
  \/ JustifyLine \/ JustifyQuotient \/ JustifyRemainder \/ JustifyEndOfLine \/ JustifyReturn
  \/ RightLine \/ CentreLine
  \/ Interrupted \/ ReturnFailure
  \/ Exit
  \/ RunAgain

\* The mutator alone: show_progress only reads the two counters and writes to the
\* terminal, so no step of main() depends on when it runs.
Spec == Init /\ [][Next]_vars

\* The mutator and the progress thread, interleaved at every step.  The files are the
\* short ones and two texts that justify_text widens; memory around the mapping is as
\* the machine has it (no page below startp, zeroes up to the end of the last page).
ProgressInputs == Short \cup {WordLine(3, 1) \o <<LF>> \o m \o <<LF>> : m \in Long}

InitProgress ==
  /\ input \in ProgressInputs
  /\ faults = IF input \in Short THEN MaxFaults ELSE 0
  /\ lo = FAULT /\ hi = NUL
  /\ user_options \in OptionSets
  /\ MAX_LENGTH \in (IF LENGTH \in user_options THEN Widths ELSE {0})
  /\ run = 1
  /\ Boot

NextProgress == Next \/ ShowProgress

SpecProgress == InitProgress /\ [][NextProgress]_vars

\* ------------------------------------------------------------- properties
\* the lengths of the maximal runs of byte c in b, in order
RECURSIVE RunEnd(_, _, _)
RunEnd(b, c, s) == IF s < Len(b) /\ b[s + 1] = c THEN RunEnd(b, c, s + 1) ELSE s

RECURSIVE RunsFrom(_, _, _)
RunsFrom(b, c, s) ==
  IF s >= Len(b) THEN <<>>
  ELSE IF b[s + 1] # c THEN RunsFrom(b, c, s + 1)
  ELSE <<RunEnd(b, c, s) - s>> \o RunsFrom(b, c, RunEnd(b, c, s))

IsBreak(n) == n >= 2

\* the paragraph breaks of b: its runs of two or more LF
LFRuns(b) == SelectSeq(RunsFrom(b, LF, 0), IsBreak)

RECURSIVE IsSubseq(_, _)
IsSubseq(s, t) ==
  IF s = <<>> THEN TRUE
  ELSE IF t = <<>> THEN FALSE
  ELSE IF Head(s) = Head(t) THEN IsSubseq(Tail(s), Tail(t))
  ELSE IsSubseq(s, Tail(t))

\* the lines of b that end in an LF, without the LF
RECURSIVE TerminatedFrom(_, _)
TerminatedFrom(b, s) ==
  LET n == memchr(b, s, LF, Len(b) - s)
  IN  IF n = -1 THEN <<>> ELSE <<Slice(b, s, n)>> \o TerminatedFrom(b, n + 1)

Terminated(b) == TerminatedFrom(b, 0)

HasSpace(l) == \E i \in 1..Len(l) : l[i] = SP

Range(s) == {s[i] : i \in 1..Len(s)}

\* C1: as long as every collapse, extend and shift made since the file was mapped has
\* succeeded, map_size equals current_file_size and [startp, endp) is exactly
\* map_size bytes long.
C1_SizesAgree ==
  (status = "running" /\ pc # "map_file" /\ ~failed)
    => /\ file.map_size = file.current_file_size
       /\ file.endp = file.map_size
       /\ Len(file.buf) = file.map_size

\* a run in which the normaliser has collapsed the file and an alignment pass has
\* extended and shifted it, every call having succeeded
C1_Witness ==
  /\ status = "running" /\ ~failed
  /\ lastcall.op = "shift"
  /\ Len(normal) < Len(input)
  /\ Len(file.buf) > Len(normal)

\* C2: when collapse or extend returns a failure, map_size and current_file_size are
\* still equal to each other.
C2_FailureKeepsSizes ==
  (status = "running"
   /\ \/ lastcall.op = "collapse" /\ lastcall.ret = -1
      \/ lastcall.op = "extend" /\ lastcall.ret = 0)
    => file.map_size = file.current_file_size

\* C3: the normaliser leaves a file that it has itself produced byte-identical (the
\* second run is one over the output of a first run that only normalised).
C3_NormaliseTwice ==
  (run > 1 /\ pc = "main_length" /\ ~failed /\ ~oob) => file.buf = input

\* C4: the file the process leaves has as many runs of two or more LF as the file it
\* was given.
C4_ParagraphCount ==
  (run = 1 /\ status = "exit0" /\ ~failed)
    => Len(LFRuns(output)) = Len(LFRuns(input))

\* C5: change_line_length keeps every run of two or more LF of the normalised file,
\* with its byte count.
C5_ReflowKeepsBreaks ==
  (run = 1 /\ pc = "main_align" /\ LENGTH \in user_options /\ MAX_LENGTH >= 2
   /\ ~failed /\ ~oob)
    => IsSubseq(LFRuns(normal), LFRuns(file.buf))

\* justify_text has returned without a failure
Justified == run = 1 /\ status = "running" /\ pc = "main_exit" /\ Alignment = {JUSTIFY} /\ ~failed

NotSpace(c) == c # SP

\* the line of the file that begins where the line of `before` began
LineNow == TextAt(file.buf, before.start)

\* the line justify_text has just finished was one the claim is about: longer than
\* MAX_LENGTH / 2, shorter than MAX_LENGTH, its words one space apart
JustifiedLine ==
  /\ run = 1 /\ status = "running" /\ pc = "justify_eol" /\ ~failed
  /\ before.op = "justify"
  /\ Len(before.text) > MAX_LENGTH \div 2 /\ Len(before.text) < MAX_LENGTH
  /\ HasSpace(before.text)
  /\ \A n \in Range(RunsFrom(before.text, SP, 0)) : n = 1
  /\ Head(before.text) # SP /\ before.text[Len(before.text)] # SP

\* C7: a line justify_text has transformed is MAX_LENGTH long; the delta spaces went
\* into the gaps between its words, each gap getting delta / holes of them or one
\* more, delta % holes gaps the one more; the other bytes are as they were.
C7_JustifiedLine ==
  JustifiedLine
    => LET old == before.text
           d == MAX_LENGTH - Len(old)
           h == Len(RunsFrom(old, SP, 0))
           gaps == RunsFrom(LineNow, SP, 0)
       IN  /\ Len(LineNow) = MAX_LENGTH
           /\ SelectSeq(LineNow, NotSpace) = SelectSeq(old, NotSpace)
           /\ Head(LineNow) # SP /\ LineNow[Len(LineNow)] # SP
           /\ Len(gaps) = h
           /\ \A k \in 1..h : gaps[k] - 1 \in {d \div h, d \div h + 1}
           /\ Cardinality({k \in 1..h : gaps[k] - 1 = d \div h + 1}) = d % h
           /\ file.buf = Slice(before.buf, 0, before.start) \o LineNow
                         \o Slice(before.buf, before.start + Len(old), Len(before.buf))

\* a line was given spaces by the quotient loop and by the remainder loop
C7_Witness ==
  /\ JustifiedLine
  /\ (MAX_LENGTH - Len(before.text)) \div Len(RunsFrom(before.text, SP, 0)) >= 1
  /\ (MAX_LENGTH - Len(before.text)) % Len(RunsFrom(before.text, SP, 0)) >= 1

\* right_align_text or centre_align_text has just padded a line that is not blank
\* and no longer than MAX_LENGTH
AlignedLine ==
  /\ run = 1 /\ status = "running" /\ ~failed
  /\ \/ before.op = "right" /\ pc \in {"right", "main_exit"}
     \/ before.op = "centre" /\ pc \in {"centre", "main_exit"}
  /\ before.text # <<>> /\ Len(before.text) <= MAX_LENGTH

\* C8: the line is now k spaces, its old bytes, and MAX_LENGTH - n - k spaces, with
\* k = MAX_LENGTH - n for right_align_text and the upper half of it for
\* centre_align_text; the rest of the file is as it was.
C8_AlignedLine ==
  AlignedLine
    => LET n == Len(before.text)
           k == IF before.op = "right" THEN MAX_LENGTH - n
                ELSE (MAX_LENGTH - n + 1) \div 2
       IN  file.buf = Slice(before.buf, 0, before.start)
                      \o Fill(k, SP) \o before.text \o Fill(MAX_LENGTH - n - k, SP)
                      \o Slice(before.buf, before.start + n, Len(before.buf))

\* centre_align_text has padded a line by an odd number of spaces, three or more
C8_Witness ==
  /\ AlignedLine /\ before.op = "centre"
  /\ (MAX_LENGTH - Len(before.text)) % 2 = 1
  /\ MAX_LENGTH - Len(before.text) >= 3

\* change_line_length has just dealt with a line whose first MAX_LENGTH + 1 bytes
\* hold no space and no LF
LongToken ==
  /\ run = 1 /\ status = "running" /\ ~failed
  /\ before.op \in {"reflow", "hyphenate"} /\ pc \in {"reflow", "main_align"}
  /\ before.start + MAX_LENGTH < Len(before.buf)
  /\ \A i \in 0..MAX_LENGTH : before.buf[before.start + i + 1] \notin {SP, LF}

\* C9: such a line was hyphenated: a '-' at an offset of at most MAX_LENGTH - 1 from
\* its start is followed by an LF, the file is the old one with only the "-\n" (or,
\* next to a '-' of the token, the LF) added, and the cursor is right after the LF.
C9_Hyphenated ==
  LongToken
    => /\ before.op = "hyphenate"
       /\ \E o \in 0..(MAX_LENGTH - 1) :
            LET at == before.start + o
            IN  /\ Rd(file.buf, at) = HY /\ Rd(file.buf, at + 1) = LF
                /\ p = at + 2
                /\ \/ file.buf = Slice(before.buf, 0, at) \o <<HY, LF>>
                                 \o Slice(before.buf, at, Len(before.buf))
                   \/ file.buf = Slice(before.buf, 0, at + 1) \o <<LF>>
                                 \o Slice(before.buf, at + 1, Len(before.buf))

\* a word longer than a width of two or more has been broken
C9_Witness == LongToken /\ before.op = "hyphenate" /\ MAX_LENGTH >= 2

\* C10: once a step of collapse or extend has failed, the buffer is not changed any
\* more and the process does not end with status 0.
C10_FailureIsFatal ==
  (run = 1 /\ failed) => (~mut_after_fail /\ status # "exit0")

\* C11: in every interleaving of main() and show_progress, and for each pass,
\* total_lines holds the LF count of the buffer when the thread first reads the
\* counters, and holds it from the moment the pass makes done_lines differ from 0.
C11_TotalLinesFirst ==
  run = 1
    => /\ mon.seen # "stale"
       /\ (mon.entered /\ done_lines # 0) => total_lines = mon.lines

\* the environment has made a system call fail (the short files are the ones it may)
Injected == input \in Short /\ faults < MaxFaults

\* the last primitive called was __collapse_file, on a mapping whose sizes agreed, and
\* no system call was made to fail
Collapsed ==
  /\ run = 1 /\ lastcall.op = "collapse" /\ ~Injected
  /\ lastcall.old.ok
  /\ lastcall.old.map_size = lastcall.old.current_file_size
  /\ lastcall.old.map_size = Len(lastcall.old.buf)

\* C12: collapse(offset, length) with 0 <= offset < map_size and offset + length <=
\* map_size leaves old[0, offset) ++ old[offset + length, map_size) and lowers map_size
\* and current_file_size by length; with offset < 0 or offset >= map_size it changes
\* nothing and returns 0.
C12_Collapse ==
  Collapsed
    => LET old == lastcall.old
           new == lastcall.new
           offset == lastcall.offset
           length == lastcall.by
       IN  IF offset < 0 \/ offset >= old.map_size
           THEN new = old /\ lastcall.ret = 0
           ELSE offset + length <= old.map_size
                  => /\ new.buf = Slice(old.buf, 0, offset)
                                  \o Slice(old.buf, offset + length, old.map_size)
                     /\ new.map_size = old.map_size - length
                     /\ new.current_file_size = old.current_file_size - length

\* C13: at every call of shift(offset, n) made by a pass, n >= 0 and the last n bytes
\* of the mapping are room that an extend has added and no shift has used (they are
\* still NUL), so that no byte of the text is moved off the end.
C13_ShiftHasRoom ==
  (run = 1 /\ lastcall.op = "shift" /\ ~failed /\ lastcall.old.ok)
    => /\ lastcall.by >= 0
       /\ \A i \in (lastcall.old.endp - lastcall.by)..(lastcall.old.endp - 1) :
            Rd(lastcall.old.buf, i) = NUL

\* __normalise_file has returned without a failure and without leaving the mapping
Normalised == run = 1 /\ status = "running" /\ pc = "main_length" /\ ~failed /\ ~oob

\* C14: after the normaliser no line begins or ends with a space or a tab, and every
\* run of spaces and tabs inside a line is a single space: each space or tab of the
\* buffer is a space that stands between two bytes that are neither white space nor LF.
C14_WhiteSpace ==
  Normalised
    => \A i \in 0..(Len(file.buf) - 1) :
         Rd(file.buf, i) \in WS
           => /\ Rd(file.buf, i) = SP
              /\ i > 0 /\ i < Len(file.buf) - 1
              /\ Rd(file.buf, i - 1) \notin WS \cup {LF}
              /\ Rd(file.buf, i + 1) \notin WS \cup {LF}

\* C15: after the normaliser the buffer holds no '-' with an LF right after it.
C15_NoHyphenLF ==
  Normalised
    => \A i \in 0..(Len(file.buf) - 2) :
         ~(Rd(file.buf, i) = HY /\ Rd(file.buf, i + 1) = LF)

\* change_line_length has returned without a failure, for a width of two or more, on
\* the LF-terminated buffer the normaliser left
Reflowed ==
  /\ run = 1 /\ status = "running" /\ pc = "main_align" /\ ~failed /\ ~oob
  /\ LENGTH \in user_options /\ MAX_LENGTH >= 2
  /\ normal # <<>> /\ normal[Len(normal)] = LF

Working ==
  /\ run = 1 /\ status = "running" /\ ~failed
  /\ normal # <<>> /\ normal[Len(normal)] = LF
  /\ MAX_LENGTH >= 1

\* one more turn of the loop of change_line_length leaves fewer bytes between the
\* cursor and the end of the buffer
ReflowAdvances == (pc = "reflow" /\ pc' = "reflow") => endp' - p' < endp - p

\* one more turn of the quotient loop of justify_text either ends a walk over the line
\* (one of the quotient walks) or leaves less of the line to walk
QuotientAdvances ==
  (pc = "justify_quot" /\ pc' = "justify_quot")
    => \/ quotient' = quotient - 1 /\ quotient' > 0
       \/ quotient' = quotient /\ line_end' - p' < line_end - p

\* a turn of the remainder loop of justify_text puts in at most one space, counts it,
\* and the loop is left when, and only when, remainder spaces have been put in
RemainderAdvances ==
  pc = "justify_rem"
    => /\ remainder' \in {remainder, remainder - 1}
       /\ (pc' = "justify_rem") = (remainder' > 0)

\* C17: for every width of one or more, each turn of the loop of change_line_length,
\* of the quotient loop and of the remainder loop of justify_text brings the loop
\* nearer its end, so that each pass ends.
C17_PassesEnd ==
  [][(Working /\ status' = "running")
       => ReflowAdvances /\ QuotientAdvances /\ RemainderAdvances]_vars

\* C18: no pass loads or stores a byte outside [0, map_size) of the mapping, whatever
\* the file (no system call being made to fail).
C18_InBounds == (run = 1 /\ ~Injected) => ~oob

====
